---- MODULE Spec2Model ----
(***************************************************************************)
(* Model of the rally simulation of src/lab3.cpp: Court, Player, Strategy  *)
(* and Match.  Coordinates are fixed-point integers, Unit steps per court  *)
(* unit; distances are compared through their squares wherever the code    *)
(* only compares them, and rounded down where the code divides by them.    *)
(***************************************************************************)
EXTENDS Integers, Sequences, FiniteSets, TLC

VARIABLES agent, bot, trapMode, hasLastTarget, lastServeTarget,
          agentPoints, botPoints, agentGames, botGames, agentSets, botSets,
          bestOfSets, pc, isServe, targetSquare, ball, returnBall,
          agentWonPoint, gameShots, h

vars == <<agent, bot, trapMode, hasLastTarget, lastServeTarget,
          agentPoints, botPoints, agentGames, botGames, agentSets, botSets,
          bestOfSets, pc, isServe, targetSquare, ball, returnBall,
          agentWonPoint, gameShots, h>>

(* ------------------------------ bounds --------------------------------- *)
\* grid resolution n of the modelled Court
N == 3
\* most points played in one game (the code has no cap)
MaxPoints == 8
\* most games played in one set (the code has no cap)
MaxGames == 12
\* largest grid resolution n of a Court constructed on its own
MaxN == 6
\* the argument patentsPerAgent of the modelled Simulation
PatentsPerAgent == 2
\* the counters of the Simulation are followed up to this value
MaxCount == 2

(* ------------------------- fixed-point scale --------------------------- *)
Unit == 60
ProbScale == 1000
CourtWidth == 20 * Unit
CourtHeight == 10 * Unit

Pos(x, y) == [x |-> x, y |-> y]

RECURSIVE SqrtSearch(_, _, _)
SqrtSearch(s, lo, hi) ==
    IF lo >= hi THEN lo
    ELSE LET mid == (lo + hi + 1) \div 2
         IN  IF mid * mid <= s THEN SqrtSearch(s, mid, hi)
                               ELSE SqrtSearch(s, lo, mid - 1)

\* floor of the square root
ISqrt(s) == SqrtSearch(s, 0, 2047)

DistSq(dx, dy) == dx * dx + dy * dy

\* std::hypot, rounded down to the fixed-point grid
Hypot(dx, dy) == ISqrt(DistSq(dx, dy))

\* division rounding toward zero
Quot(a, b) == IF a >= 0 THEN a \div b ELSE -((-a) \div b)

Min(a, b) == IF a <= b THEN a ELSE b

(* ------------------------------- Court --------------------------------- *)
\* mutant: the cells are pushed with j as the outer index
generateSquares_ColumnMajor(n) ==
    [k \in 1..(n * n) |->
        LET i == (k - 1) % n
            j == (k - 1) \div n
        IN  [center |-> Pos(((2 * i + 1) * CourtWidth) \div (2 * n),
                            ((2 * j + 1) * CourtHeight) \div (2 * n)),
             size |-> CourtWidth \div n,
             row |-> i, col |-> j]]

\* Court::generateSquares: cell (i, j) pushed in the order i outer, j inner
generateSquares(n) ==
    [k \in 1..(n * n) |->
        LET i == (k - 1) \div n
            j == (k - 1) % n
        IN  [center |-> Pos(((2 * i + 1) * CourtWidth) \div (2 * n),
                            ((2 * j + 1) * CourtHeight) \div (2 * n)),
             size |-> CourtWidth \div n,
             row |-> i, col |-> j]]

squares == generateSquares(N)

getSquare(row, col) == squares[row * N + col + 1]

\* Court::getSquare of a Court c with fields n and squares
getSquareOf(c, row, col) == c.squares[row * c.n + col + 1]

isOut(p) == p.x < 0 \/ p.x > CourtWidth \/ p.y < 0 \/ p.y > CourtHeight

(* ------------------------------- Player -------------------------------- *)
Player(r, l, start) == [pos |-> start, r |-> r, l |-> l]

\* mutant: no test of the ball's side
canHit_NoSide(p, b) ==
    DistSq(b.x - p.pos.x, b.y - p.pos.y) <= p.r * p.r

\* mutant: the ball must be strictly inside the reach radius
canHit_Strict(p, b) ==
    LET dx == b.x - p.pos.x
        dy == b.y - p.pos.y
    IN  IF dy < 0 THEN FALSE ELSE DistSq(dx, dy) < p.r * p.r

canHit(p, b) ==
    LET dx == b.x - p.pos.x
        dy == b.y - p.pos.y
    IN  IF dy < 0 THEN FALSE ELSE DistSq(dx, dy) <= p.r * p.r

\* mutant: the player is put on the target, however far it is
moveTo_Teleport(p, target) == [p EXCEPT !.pos = target]

\* mutant: always advances l, also when the target is nearer
moveTo_NoSnap(p, target) ==
    LET dx == target.x - p.pos.x
        dy == target.y - p.pos.y
        dist == Hypot(dx, dy)
    IN  IF dist = 0 THEN p
        ELSE [p EXCEPT !.pos = Pos(p.pos.x + Quot(dx * p.l, dist),
                                   p.pos.y + Quot(dy * p.l, dist))]

moveTo(p, target) ==
    LET dx == target.x - p.pos.x
        dy == target.y - p.pos.y
    IN  IF DistSq(dx, dy) <= p.l * p.l
        THEN [p EXCEPT !.pos = target]
        ELSE LET dist == Hypot(dx, dy)
             IN  [p EXCEPT !.pos = Pos(p.pos.x + Quot(dx * p.l, dist),
                                       p.pos.y + Quot(dy * p.l, dist))]

(* ------------------------------ Strategy ------------------------------- *)
\* the out-sentinel Square{ {-1.0, -1.0}, 0.0, -1, -1 }
OutSquare == [center |-> Pos(-Unit, -Unit), size |-> 0, row |-> -1, col |-> -1]

\* outcomes of the two random draws of the placement error: 0 is "no
\* error" (errorDist(rng) >= errorProb), d + 1 is an error with dirIndex d
ErrorRolls == 0..4

dRow == <<-1, 0, 1, 0>>
dCol == <<0, -1, 0, 1>>

CenterDistSq(sq, p) == DistSq(sq.center.x - p.x, sq.center.y - p.y)

\* mutant: dist >= maxDist, the last square of maximal distance is kept
RECURSIVE farthestLoop_LastTie(_, _, _, _)
farthestLoop_LastTie(k, maxDist, farthestSquare, target) ==
    IF k > Len(squares) THEN farthestSquare
    ELSE LET dist == CenterDistSq(squares[k], target)
         IN  IF dist >= maxDist
             THEN farthestLoop_LastTie(k + 1, dist, squares[k], target)
             ELSE farthestLoop_LastTie(k + 1, maxDist, farthestSquare, target)

\* the loop of the trap branch: keeps the first square of maximal distance
RECURSIVE farthestLoop(_, _, _, _)
farthestLoop(k, maxDist, farthestSquare, target) ==
    IF k > Len(squares) THEN farthestSquare
    ELSE LET dist == CenterDistSq(squares[k], target)
         IN  IF dist > maxDist
             THEN farthestLoop(k + 1, dist, squares[k], target)
             ELSE farthestLoop(k + 1, maxDist, farthestSquare, target)

farthestSquareFrom(target) == farthestLoop(1, -1, squares[1], target)

\* score = botDist * min(1.0, agent.r / (agentDist + 0.1)), in 1/ProbScale
score(sq, a, b) ==
    LET botDist == Hypot(sq.center.x - b.pos.x, sq.center.y - b.pos.y)
        agentDist == Hypot(sq.center.x - a.pos.x, sq.center.y - a.pos.y)
        hitProbability == Min(ProbScale,
                              (a.r * ProbScale) \div (agentDist + Unit \div 10))
    IN  botDist * hitProbability

RECURSIVE bestLoop(_, _, _, _, _)
bestLoop(k, bestScore, bestSquare, a, b) ==
    IF k > Len(squares) THEN bestSquare
    ELSE LET sc == score(squares[k], a, b)
         IN  IF sc > bestScore
             THEN bestLoop(k + 1, sc, squares[k], a, b)
             ELSE bestLoop(k + 1, bestScore, bestSquare, a, b)

bestSquareFor(a, b) == bestLoop(1, -1, squares[1], a, b)

\* minBotDist starts at 1e9, above every distance of the bounded court
MinBotDistInit == 2147483647

\* mutant: botDist <= minBotDist, the last nearest square is kept
RECURSIVE nearLoop_LastTie(_, _, _, _)
nearLoop_LastTie(k, minBotDist, nearSquare, b) ==
    IF k > Len(squares) THEN nearSquare
    ELSE LET botDist == CenterDistSq(squares[k], b.pos)
         IN  IF botDist <= minBotDist
             THEN nearLoop_LastTie(k + 1, botDist, squares[k], b)
             ELSE nearLoop_LastTie(k + 1, minBotDist, nearSquare, b)

RECURSIVE nearLoop(_, _, _, _)
nearLoop(k, minBotDist, nearSquare, b) ==
    IF k > Len(squares) THEN nearSquare
    ELSE LET botDist == CenterDistSq(squares[k], b.pos)
         IN  IF botDist < minBotDist
             THEN nearLoop(k + 1, botDist, squares[k], b)
             ELSE nearLoop(k + 1, minBotDist, nearSquare, b)

nearSquareTo(bestSquare, b) == nearLoop(1, MinBotDistInit, bestSquare, b)

\* the placement error of a non-serve shot
placementError(bestSquare, err) ==
    IF err = 0 THEN bestSquare
    ELSE LET newRow == bestSquare.row + dRow[err]
             newCol == bestSquare.col + dCol[err]
         IN  IF newRow >= 0 /\ newRow < N /\ newCol >= 0 /\ newCol < N
             THEN getSquare(newRow, newCol)
             ELSE OutSquare

trapArmed(st) == st.trapMode /\ st.hasLastTarget

\* mutant: the trap branch clears trapMode but not hasLastTarget, and a
\* later serve is then taken for a trap already armed
chooseSquare_TrapKept(st, a, b, serve, errs) ==
    IF st.hasLastTarget
    THEN {[sq |-> farthestSquareFrom(st.lastServeTarget),
           st |-> [st EXCEPT !.trapMode = FALSE]]}
    ELSE LET bestSquare == bestSquareFor(a, b)
         IN  IF ~serve
             THEN {[sq |-> placementError(bestSquare, err), st |-> st] :
                   err \in errs}
             ELSE LET nearSquare == nearSquareTo(bestSquare, b)
                  IN  {[sq |-> nearSquare,
                        st |-> [trapMode |-> TRUE, hasLastTarget |-> TRUE,
                                lastServeTarget |-> nearSquare.center]]}

\* mutant: a serve sets trapMode but not hasLastTarget
chooseSquare_HalfArmed(st, a, b, serve, errs) ==
    IF trapArmed(st)
    THEN {[sq |-> farthestSquareFrom(st.lastServeTarget),
           st |-> [st EXCEPT !.trapMode = FALSE, !.hasLastTarget = FALSE]]}
    ELSE LET bestSquare == bestSquareFor(a, b)
         IN  IF ~serve
             THEN {[sq |-> placementError(bestSquare, err), st |-> st] :
                   err \in errs}
             ELSE LET nearSquare == nearSquareTo(bestSquare, b)
                  IN  {[sq |-> nearSquare,
                        st |-> [trapMode |-> TRUE, hasLastTarget |-> FALSE,
                                lastServeTarget |-> nearSquare.center]]}

\* Strategy::chooseSquare: for each outcome in errs of its random draws, the
\* returned square and the Strategy's new state
chooseSquare(st, a, b, serve, errs) ==
    IF trapArmed(st)
    THEN {[sq |-> farthestSquareFrom(st.lastServeTarget),
           st |-> [st EXCEPT !.trapMode = FALSE, !.hasLastTarget = FALSE]]}
    ELSE LET bestSquare == bestSquareFor(a, b)
         IN  IF ~serve
             THEN {[sq |-> placementError(bestSquare, err), st |-> st] :
                   err \in errs}
             ELSE LET nearSquare == nearSquareTo(bestSquare, b)
                  IN  {[sq |-> nearSquare,
                        st |-> [trapMode |-> TRUE, hasLastTarget |-> TRUE,
                                lastServeTarget |-> nearSquare.center]]}

strategy == [trapMode |-> trapMode, hasLastTarget |-> hasLastTarget,
             lastServeTarget |-> lastServeTarget]

(* -------------------------------- Match -------------------------------- *)
\* values of the locals of simulatePoint before they are assigned
NoSquare == [center |-> Pos(0, 0), size |-> 0, row |-> -2, col |-> -2]
NoPos == Pos(-2 * Unit, -2 * Unit)

\* outcome k of noise(rng) is k quarters of the target square's size
noiseOf(sq, k) == (k * sq.size) \div 4

\* the constructor arguments and the argument of playMatch, <<r_agent,
\* l_agent, r_bot, l_bot, bestOfSets>>, and the outcomes of the random draws
\* that are explored: err for the placement error, noise for noise(rng), ret for
\* { xDist(rng), yDist(rng) } with x in [0, width) and y in [0, height/2)
MatchRolls ==
    [cfg |-> { <<2 * Unit, 1 * Unit, 3 * Unit, 0, 1>>,
               <<2 * Unit, 0, 3 * Unit, 0, 2>>,
               <<2 * Unit, 1 * Unit, 2 * Unit, 30 * Unit, 1>> },
     err |-> ErrorRolls,
     noise |-> {0, 1},
     ret |-> { Pos(10 * Unit, 0), Pos(10 * Unit, (3 * Unit) \div 2) }]

\* the state after Match::Match(r_agent, l_agent, r_bot, l_bot, n)
MatchInit(rolls) ==
    \E cfg \in rolls.cfg :
        /\ agent = Player(cfg[1], cfg[2], Pos(10 * Unit, 0))
        /\ bot = Player(cfg[3], cfg[4], Pos(10 * Unit, 10 * Unit))
        /\ trapMode = FALSE
        /\ hasLastTarget = FALSE
        /\ lastServeTarget = Pos(0, 0)
        /\ agentPoints = 0 /\ botPoints = 0
        /\ agentGames = 0 /\ botGames = 0
        /\ agentSets = 0 /\ botSets = 0
        /\ bestOfSets = cfg[5]
        /\ pc = "start"
        /\ isServe = FALSE
        /\ targetSquare = NoSquare
        /\ ball = NoPos
        /\ returnBall = NoPos
        /\ agentWonPoint = FALSE
        /\ gameShots = 0
        /\ h = <<>>

Init == MatchInit(MatchRolls)

counters == <<agentPoints, botPoints, agentGames, botGames, agentSets, botSets>>
players == <<agent, bot>>
trap == <<trapMode, hasLastTarget, lastServeTarget>>
locals == <<isServe, targetSquare, ball, returnBall, agentWonPoint>>

\* simulatePoint from the draw of returnBall on: the bot has hit ball b
\* from bot1, ret is the outcome of { xDist(rng), yDist(rng) }
returnShot(b, bot1, ret) ==
    LET agent1 == moveTo(agent, ret)
    IN  IF isOut(ret)
        THEN [res |-> "agent", ball |-> b, ret |-> ret,
              agent |-> agent, bot |-> bot1]
        ELSE IF ~canHit(agent1, ret)
        THEN [res |-> "bot", ball |-> b, ret |-> ret,
              agent |-> agent1, bot |-> bot1]
        ELSE [res |-> "recurse", ball |-> b, ret |-> ret,
              agent |-> agent1, bot |-> bot1]

\* mutant: a ball landing out of bounds wins the point for the agent
landedShot_OutBallWins(b, rets) ==
    LET bot1 == moveTo(bot, b)
    IN  IF isOut(b)
        THEN {[res |-> "agent", ball |-> b, ret |-> NoPos,
               agent |-> agent, bot |-> bot]}
        ELSE IF ~canHit(bot1, b)
        THEN {[res |-> "agent", ball |-> b, ret |-> NoPos,
               agent |-> agent, bot |-> bot1]}
        ELSE {returnShot(b, bot1, ret) : ret \in rets}

\* simulatePoint from the out test of the landing position b on
landedShot(b, rets) ==
    LET bot1 == moveTo(bot, b)
    IN  IF isOut(b)
        THEN {[res |-> "bot", ball |-> b, ret |-> NoPos,
               agent |-> agent, bot |-> bot]}
        ELSE IF ~canHit(bot1, b)
        THEN {[res |-> "agent", ball |-> b, ret |-> NoPos,
               agent |-> agent, bot |-> bot1]}
        ELSE {returnShot(b, bot1, ret) : ret \in rets}

\* the landing positions of a shot at square sq
landings(sq, noise) ==
    {Pos(sq.center.x + noiseOf(sq, nx), sq.center.y + noiseOf(sq, ny)) :
        nx \in noise, ny \in noise}

\* mutant: the sentinel is not tested, its centre is used as a landing place
simulatePoint_NoSentinelTest(sq, rolls) ==
    UNION {landedShot(b, rolls.ret) : b \in landings(sq, rolls.noise)}

\* mutant: a shot at the sentinel or out of bounds is replayed
simulatePoint_FaultReplayed(sq, rolls) ==
    IF sq.row = -1
    THEN {[res |-> "recurse", ball |-> NoPos, ret |-> NoPos,
           agent |-> agent, bot |-> bot]}
    ELSE UNION {IF isOut(b)
                THEN {[res |-> "recurse", ball |-> b, ret |-> NoPos,
                       agent |-> agent, bot |-> bot]}
                ELSE landedShot(b, rolls.ret) : b \in landings(sq, rolls.noise)}

\* Match::simulatePoint after chooseSquare returned sq, up to its return or
\* to its recursive call, for each outcome of its random draws; res is
\* "agent" (return true), "bot" (return false) or "recurse"
simulatePoint(sq, rolls) ==
    IF sq.row = -1
    THEN {[res |-> "bot", ball |-> NoPos, ret |-> NoPos,
           agent |-> agent, bot |-> bot]}
    ELSE UNION {landedShot(b, rolls.ret) : b \in landings(sq, rolls.noise)}

Shot(serve, rolls) ==
    \E c \in chooseSquare(strategy, agent, bot, serve, rolls.err) :
    \E o \in simulatePoint(c.sq, rolls) :
        /\ isServe' = serve
        /\ targetSquare' = c.sq
        /\ ball' = o.ball
        /\ returnBall' = o.ret
        /\ agent' = o.agent
        /\ bot' = o.bot
        /\ trapMode' = c.st.trapMode
        /\ hasLastTarget' = c.st.hasLastTarget
        /\ lastServeTarget' = c.st.lastServeTarget
        /\ agentWonPoint' = (o.res = "agent")
        /\ pc' = IF o.res = "recurse" THEN "rally" ELSE "scored"
        /\ gameShots' = Min(gameShots + 1, 2)
        /\ UNCHANGED <<counters, bestOfSets, h>>

\* mutant: every point of the game starts with a serve
serveNow_EveryPoint(firstServe) == firstServe
\* bool serveNow = (agentPoints + botPoints == 0) && firstServe
serveNow(firstServe) == (agentPoints + botPoints = 0) /\ firstServe

\* playGame's call simulatePoint(serveNow); playSet calls playGame() with
\* the default firstServe = true
PointShot(rolls) ==
    /\ pc = "point"
    /\ agentPoints + botPoints < MaxPoints
    /\ Shot(serveNow(TRUE), rolls)

\* the recursive call simulatePoint(false)
RallyShot(rolls) ==
    /\ pc = "rally"
    /\ Shot(FALSE, rolls)

\* mutant: the game ends at four points, whatever the lead
gameWon_NoMargin(mine, theirs) == mine >= 4
gameWon(mine, theirs) == mine >= 4 /\ mine - theirs >= 2

\* mutant: the set ends at six games, whatever the lead
setWon_NoMargin(mine, theirs) == mine >= 6
setWon(mine, theirs) == mine >= 6 /\ mine - theirs >= 2

\* playGame after simulatePoint returned: count the point, test the game;
\* the locals of the finished simulatePoint frames are gone
ScorePoint ==
    /\ pc = "scored"
    /\ LET ap == IF agentWonPoint THEN agentPoints + 1 ELSE agentPoints
           bp == IF agentWonPoint THEN botPoints ELSE botPoints + 1
       IN  /\ agentPoints' = ap
           /\ botPoints' = bp
           /\ IF gameWon(ap, bp)
              THEN /\ agentGames' = agentGames + 1
                   /\ botGames' = botGames
                   /\ pc' = "setCheck"
              ELSE IF gameWon(bp, ap)
              THEN /\ botGames' = botGames + 1
                   /\ agentGames' = agentGames
                   /\ pc' = "setCheck"
              ELSE /\ UNCHANGED <<agentGames, botGames>>
                   /\ pc' = "point"
    /\ isServe' = FALSE
    /\ targetSquare' = NoSquare
    /\ ball' = NoPos
    /\ returnBall' = NoPos
    /\ agentWonPoint' = FALSE
    /\ UNCHANGED <<players, trap, agentSets, botSets, bestOfSets,
                   gameShots, h>>

\* mutant: playGame puts the players back on their start positions
PlayGame_Repositions ==
    /\ pc = "playGame"
    /\ agentGames + botGames < MaxGames
    /\ agentPoints' = 0
    /\ botPoints' = 0
    /\ gameShots' = 0
    /\ pc' = "point"
    /\ agent' = [agent EXCEPT !.pos = Pos(10 * Unit, 0)]
    /\ bot' = [bot EXCEPT !.pos = Pos(10 * Unit, 10 * Unit)]
    /\ UNCHANGED <<trap, locals, agentGames, botGames, agentSets, botSets,
                   bestOfSets, h>>

\* mutant: playGame does not reset the point counters
PlayGame_NoReset ==
    /\ pc = "playGame"
    /\ agentGames + botGames < MaxGames
    /\ gameShots' = 0
    /\ pc' = "point"
    /\ UNCHANGED <<players, trap, locals, counters, bestOfSets, h>>

\* entry of playGame
PlayGame ==
    /\ pc = "playGame"
    /\ agentGames + botGames < MaxGames
    /\ agentPoints' = 0
    /\ botPoints' = 0
    /\ gameShots' = 0
    /\ pc' = "point"
    /\ UNCHANGED <<players, trap, locals, agentGames, botGames, agentSets,
                   botSets, bestOfSets, h>>

\* playSet after playGame returned
SetCheck ==
    /\ pc = "setCheck"
    /\ IF setWon(agentGames, botGames)
       THEN /\ agentSets' = agentSets + 1
            /\ botSets' = botSets
            /\ pc' = "matchLoop"
       ELSE IF setWon(botGames, agentGames)
       THEN /\ botSets' = botSets + 1
            /\ agentSets' = agentSets
            /\ pc' = "matchLoop"
       ELSE /\ UNCHANGED <<agentSets, botSets>>
            /\ pc' = "playGame"
    /\ UNCHANGED <<players, trap, locals, agentPoints, botPoints, agentGames,
                   botGames, bestOfSets, gameShots, h>>

\* mutant: the loop stops only when both sides reached the threshold
matchRunning_Either == agentSets < bestOfSets \/ botSets < bestOfSets
matchRunning == agentSets < bestOfSets /\ botSets < bestOfSets

\* entry of playMatch
PlayMatch ==
    /\ pc = "start"
    /\ agentSets' = 0
    /\ botSets' = 0
    /\ pc' = "matchLoop"
    /\ UNCHANGED <<players, trap, locals, agentPoints, botPoints, agentGames,
                   botGames, bestOfSets, gameShots, h>>

\* the while of playMatch holds: entry of playSet
PlaySet ==
    /\ pc = "matchLoop"
    /\ matchRunning
    /\ agentGames' = 0
    /\ botGames' = 0
    /\ pc' = "playGame"
    /\ UNCHANGED <<players, trap, locals, agentPoints, botPoints, agentSets,
                   botSets, bestOfSets, gameShots, h>>

\* the while of playMatch fails: playMatch returns
MatchReturn ==
    /\ pc = "matchLoop"
    /\ ~matchRunning
    /\ pc' = "done"
    /\ UNCHANGED <<players, trap, locals, counters, bestOfSets, gameShots, h>>

Next ==
    \/ PlayMatch
    \/ PlaySet
    \/ PlayGame
    \/ PointShot(MatchRolls)
    \/ RallyShot(MatchRolls)
    \/ ScorePoint
    \/ SetCheck
    \/ MatchReturn

Spec == Init /\ [][Next]_vars

(* ------------------- a Strategy instance called directly --------------- *)
\* positions of the two players passed to chooseSquare
StrategyPositions ==
    { Pos(10 * Unit, 0), Pos(10 * Unit, 10 * Unit), Pos(10 * Unit, 5 * Unit),
      Pos((20 * Unit) \div 3, 5 * Unit) }

\* a Strategy as constructed (trap idle) and two players
StrategyInit ==
    /\ agent = Player(2 * Unit, 1 * Unit, Pos(10 * Unit, 0))
    /\ bot = Player(2 * Unit, 3 * Unit, Pos(10 * Unit, 10 * Unit))
    /\ trapMode = FALSE
    /\ hasLastTarget = FALSE
    /\ lastServeTarget = Pos(0, 0)
    /\ agentPoints = 0 /\ botPoints = 0
    /\ agentGames = 0 /\ botGames = 0
    /\ agentSets = 0 /\ botSets = 0
    /\ bestOfSets = 0
    /\ pc = "strategy"
    /\ isServe = FALSE
    /\ targetSquare = NoSquare
    /\ ball = NoPos
    /\ returnBall = NoPos
    /\ agentWonPoint = FALSE
    /\ gameShots = 0
    /\ h = <<>>

\* one call strategy.chooseSquare(agent, bot, court, rng, serve)
StrategyCall(serve) ==
    /\ pc = "strategy"
    /\ \E ap \in StrategyPositions, bp \in StrategyPositions :
       \E c \in chooseSquare(strategy, [agent EXCEPT !.pos = ap],
                             [bot EXCEPT !.pos = bp], serve, ErrorRolls) :
            /\ agent' = [agent EXCEPT !.pos = ap]
            /\ bot' = [bot EXCEPT !.pos = bp]
            /\ isServe' = serve
            /\ targetSquare' = c.sq
            /\ trapMode' = c.st.trapMode
            /\ hasLastTarget' = c.st.hasLastTarget
            /\ lastServeTarget' = c.st.lastServeTarget
    /\ UNCHANGED <<counters, bestOfSets, pc, ball, returnBall, agentWonPoint,
                   gameShots, h>>

ServeCall == StrategyCall(TRUE)
ShotCall == StrategyCall(FALSE)

StrategyNext == ServeCall \/ ShotCall

SpecStrategy == StrategyInit /\ [][StrategyNext]_vars

(* ---------------------- Player::moveTo called directly ----------------- *)
\* start positions, displacements to the target and speeds l; the
\* displacements have whole lengths
MoveStarts == { Pos(0, 0), Pos(10 * Unit, 0), Pos(10 * Unit, 10 * Unit) }
MoveSteps ==
    { <<0, 0>>, <<Unit, 0>>, <<0, -Unit>>, <<3 * Unit, 4 * Unit>>,
      <<-3 * Unit, -4 * Unit>>, <<5 * Unit, -12 * Unit>>,
      <<-6 * Unit, 8 * Unit>>, <<8 * Unit, 6 * Unit>>, <<-4 * Unit, 3 * Unit>> }
MoveSpeeds == { 0, Unit \div 2, Unit, 5 * Unit, 10 * Unit }

\* the arithmetic of moveTo is exact in fixed point for these arguments
exactMove(d, l) ==
    LET dist == Hypot(d[1], d[2])
    IN  /\ dist * dist = DistSq(d[1], d[2])
        /\ dist > 0 => (d[1] * l) % dist = 0 /\ (d[2] * l) % dist = 0

MoveInit ==
    \E start \in MoveStarts, d \in MoveSteps, l \in MoveSpeeds :
        /\ exactMove(d, l)
        /\ agent = Player(2 * Unit, l, start)
        /\ h = [from |-> start,
                target |-> Pos(start.x + d[1], start.y + d[2])]
        /\ pc = "move"
        /\ bot = Player(2 * Unit, 3 * Unit, Pos(10 * Unit, 10 * Unit))
        /\ trapMode = FALSE
        /\ hasLastTarget = FALSE
        /\ lastServeTarget = Pos(0, 0)
        /\ agentPoints = 0 /\ botPoints = 0
        /\ agentGames = 0 /\ botGames = 0
        /\ agentSets = 0 /\ botSets = 0
        /\ bestOfSets = 0
        /\ isServe = FALSE
        /\ targetSquare = NoSquare
        /\ ball = NoPos
        /\ returnBall = NoPos
        /\ agentWonPoint = FALSE
        /\ gameShots = 0

\* one call agent.moveTo(target)
MoveCall ==
    /\ pc = "move"
    /\ agent' = moveTo(agent, h.target)
    /\ pc' = "moved"
    /\ UNCHANGED <<bot, trap, counters, bestOfSets, locals, gameShots, h>>

MoveNext == MoveCall

SpecMove == MoveInit /\ [][MoveNext]_vars

(* ------------------------ a Court constructed on its own --------------- *)
\* h is the Court (n, squares) and the last call getSquare(row, col) with
\* its result
NoCall == [row |-> -1, col |-> -1, got |-> NoSquare]

CourtInit ==
    \E n \in 1..MaxN :
        /\ h = [n |-> n, squares |-> <<>>, call |-> NoCall]
        /\ pc = "court"
        /\ agent = Player(2 * Unit, 1 * Unit, Pos(10 * Unit, 0))
        /\ bot = Player(2 * Unit, 3 * Unit, Pos(10 * Unit, 10 * Unit))
        /\ trapMode = FALSE
        /\ hasLastTarget = FALSE
        /\ lastServeTarget = Pos(0, 0)
        /\ agentPoints = 0 /\ botPoints = 0
        /\ agentGames = 0 /\ botGames = 0
        /\ agentSets = 0 /\ botSets = 0
        /\ bestOfSets = 0
        /\ isServe = FALSE
        /\ targetSquare = NoSquare
        /\ ball = NoPos
        /\ returnBall = NoPos
        /\ agentWonPoint = FALSE
        /\ gameShots = 0

\* Court::Court(20.0, 10.0, n): the constructor body calls generateSquares
CourtConstruct ==
    /\ pc = "court"
    /\ h' = [h EXCEPT !.squares = generateSquares(h.n)]
    /\ pc' = "built"
    /\ UNCHANGED <<players, trap, counters, bestOfSets, locals, gameShots>>

\* one call court.getSquare(row, col) with indices of the grid
CourtGetSquare ==
    /\ pc \in {"built", "got"}
    /\ \E row \in 0..(h.n - 1), col \in 0..(h.n - 1) :
          h' = [h EXCEPT !.call = [row |-> row, col |-> col,
                                   got |-> getSquareOf(h, row, col)]]
    /\ pc' = "got"
    /\ UNCHANGED <<players, trap, counters, bestOfSets, locals, gameShots>>

CourtNext == CourtConstruct \/ CourtGetSquare

SpecCourt == CourtInit /\ [][CourtNext]_vars

(* ------------- a Match with extreme reaches and speeds ----------------- *)
\* Matches whose bot has reach 0: one where both players cover the whole
\* court in one move, one where neither player moves, both with agent reach
\* 100 as in the end-to-end tests, and one where only the bot covers the
\* court.  The noise is drawn at the two ends of [-0.5, 0.5) * size,
\* outcome 2 standing for the upper end
ExtremeRolls ==
    [cfg |-> { <<100 * Unit, 30 * Unit, 0, 30 * Unit, 1>>,
               <<100 * Unit, 0, 0, 0, 1>>,
               <<2 * Unit, 0, 0, 30 * Unit, 1>> },
     err |-> ErrorRolls,
     noise |-> {-2, 2},
     ret |-> { Pos(3 * Unit, 4 * Unit) }]

ExtremeInit == MatchInit(ExtremeRolls)

ExtremePointShot == PointShot(ExtremeRolls)
ExtremeRallyShot == RallyShot(ExtremeRolls)

ExtremeNext ==
    \/ PlayMatch
    \/ PlaySet
    \/ PlayGame
    \/ ExtremePointShot
    \/ ExtremeRallyShot
    \/ ScorePoint
    \/ SetCheck
    \/ MatchReturn

SpecExtreme == ExtremeInit /\ [][ExtremeNext]_vars

\* the random draws of the next call of simulatePoint can end the point
canEndNow(serve) ==
    \E c \in chooseSquare(strategy, agent, bot, serve, ExtremeRolls.err) :
    \E o \in simulatePoint(c.sq, ExtremeRolls) : o.res # "recurse"

\* a call of simulatePoint is due
pointRunning ==
    pc = "rally" \/ (pc = "point" /\ agentPoints + botPoints < MaxPoints)

\* a call of simulatePoint is made
ShotTaken == pointRunning /\ pc' \in {"rally", "scored"}

\* a call of simulatePoint whose random draws end the point
EndingShot == pointRunning /\ pc' = "scored"

\* the steps of playMatch, playSet and playGame around simulatePoint
Scoring ==
    PlayMatch \/ PlaySet \/ PlayGame \/ ScorePoint \/ SetCheck \/ MatchReturn

\* the program runs on: a call of simulatePoint that is due is made (weak
\* fairness of ShotTaken, with its enabling condition written out)
ShotsProceed == []<>(~pointRunning) \/ []<><<ShotTaken>>_vars

\* the random draws are fair: an outcome that ends the point and is possible
\* again and again is drawn at some time (strong fairness of EndingShot,
\* with its enabling condition written out)
DrawsFair ==
    <>[](~(pointRunning /\ canEndNow(pc = "point" /\ serveNow(TRUE))))
        \/ []<><<EndingShot>>_vars

SpecExtremeFair ==
    ExtremeInit /\ [][ExtremeNext]_vars /\ WF_vars(Scoring) /\ ShotsProceed
                /\ DrawsFair

(* ------------------ src/lab2.cpp: Agent and Simulation ----------------- *)
\* In the specifications of this part h is the Simulation: agentList, the
\* locals iteration and allAgentsComplete of run, the locals allComplete and
\* activeAgents (the part not yet visited) of simulateIteration, and call,
\* the i, j and result of the last exchangeWith (j = -1: none made).
MAX_SIMULATION_STEPS == 10000

\* the argument numAgents of the modelled Simulation
NumAgents == 3

AgentIds == 0..(NumAgents - 1)
PatentIds == 0..(NumAgents * PatentsPerAgent - 1)

\* begin() of a non-empty std::set<int>
SetMin(S) == CHOOSE x \in S : \A y \in S : x <= y

\* c++ of an int counter, followed up to MaxCount
Count(c) == Min(c + 1, MaxCount)

updateMissingPatents(a) ==
    [a EXCEPT !.missingPatents = a.targetPatents \ a.currentPatents]

isComplete(a) == a.missingPatents = {}

findNeededPatent(a, other) ==
    LET found == a.missingPatents \cap other.currentPatents
    IN  IF found = {} THEN -1 ELSE SetMin(found)

findGiveablePatent(a, other) ==
    LET first == a.currentPatents \cap other.missingPatents
        second == {p \in a.currentPatents :
                      p \notin a.targetPatents /\ p \in other.missingPatents}
    IN  IF first # {} THEN SetMin(first)
        ELSE IF ~isComplete(other) /\ second # {} THEN SetMin(second)
        ELSE -1

\* mutant: other.updateMissingPatents() is left out
exchangeWith_NoOtherUpdate(a, other) ==
    LET a1 == [a EXCEPT !.communicationRounds = Count(@)]
        o1 == [other EXCEPT !.communicationRounds = Count(@)]
        needed == findNeededPatent(a1, o1)
        giveToOther == findGiveablePatent(a1, o1)
    IN  IF needed = -1
        THEN [ok |-> FALSE, self |-> a1, other |-> o1]
        ELSE [ok |-> TRUE,
              self |-> updateMissingPatents(
                          [a1 EXCEPT !.currentPatents = @ \cup {needed}]),
              other |-> IF giveToOther # -1
                        THEN [o1 EXCEPT !.currentPatents =
                                            @ \cup {giveToOther}]
                        ELSE o1]

\* a.exchangeWith(other) for two distinct agents: the return value and the
\* two agents afterwards
exchangeWith(a, other) ==
    LET a1 == [a EXCEPT !.communicationRounds = Count(@)]
        o1 == [other EXCEPT !.communicationRounds = Count(@)]
        needed == findNeededPatent(a1, o1)
        giveToOther == findGiveablePatent(a1, o1)
    IN  IF needed = -1
        THEN [ok |-> FALSE, self |-> a1, other |-> o1]
        ELSE [ok |-> TRUE,
              self |-> updateMissingPatents(
                          [a1 EXCEPT !.currentPatents = @ \cup {needed}]),
              other |-> IF giveToOther # -1
                        THEN updateMissingPatents(
                                [o1 EXCEPT !.currentPatents =
                                               @ \cup {giveToOther}])
                        ELSE o1]

\* createAgents and assignTargetPatents: agent i targets the patents
\* i * patentsPerAgent .. i * patentsPerAgent + patentsPerAgent - 1
createAgent(i) ==
    [id |-> i,
     targetPatents |-> (i * PatentsPerAgent)..((i + 1) * PatentsPerAgent - 1),
     currentPatents |-> {},
     missingPatents |-> {},
     communicationRounds |-> 0,
     completionStep |-> 0]

\* the order in which agent x % NumAgents is dealt its own targets
Riffle == [x \in PatentIds |->
              (x % NumAgents) * PatentsPerAgent + (x \div NumAgents)]

\* outcomes of shuffle(allPatents) that are explored: the patents in
\* ascending order or in the order Riffle, read at the places k, k + s,
\* k + 2 s, ... (mod the number of patents) for the s that visit them all
Shuffles ==
    LET m == NumAgents * PatentsPerAgent
        Orders0 == {[x \in PatentIds |-> x], Riffle}
    IN  {sh \in {[x \in PatentIds |-> b[(s * x + k) % m]] :
                      b \in Orders0, s \in 1..(m - 1), k \in PatentIds} :
            \A x, y \in PatentIds : sh[x] = sh[y] => x = y}

\* mutant: the dealing loop starts at index 1
distributeInitialPatents_FromOne(allPatents) ==
    [i \in AgentIds |->
        updateMissingPatents(
            [createAgent(i) EXCEPT !.currentPatents =
                {allPatents[x] : x \in {y \in PatentIds :
                                          y >= 1 /\ y % NumAgents = i}}])]

\* distributeInitialPatents for the shuffled vector allPatents: the agentList
distributeInitialPatents(allPatents) ==
    [i \in AgentIds |->
        updateMissingPatents(
            [createAgent(i) EXCEPT !.currentPatents =
                {allPatents[x] : x \in {y \in PatentIds :
                                          y % NumAgents = i}}])]

NoExchange == [i |-> -1, j |-> -1, ok |-> FALSE]

\* the state after Simulation::initialize(), at the entry of run()
SimInit ==
    \E sh \in Shuffles :
        /\ h = [agentList |-> distributeInitialPatents(sh),
                iteration |-> 0,
                allAgentsComplete |-> FALSE,
                allComplete |-> TRUE,
                activeAgents |-> <<>>,
                call |-> NoExchange]
        /\ pc = "run"
        /\ agent = Player(2 * Unit, 1 * Unit, Pos(10 * Unit, 0))
        /\ bot = Player(2 * Unit, 3 * Unit, Pos(10 * Unit, 10 * Unit))
        /\ trapMode = FALSE
        /\ hasLastTarget = FALSE
        /\ lastServeTarget = Pos(0, 0)
        /\ agentPoints = 0 /\ botPoints = 0
        /\ agentGames = 0 /\ botGames = 0
        /\ agentSets = 0 /\ botSets = 0
        /\ bestOfSets = 0
        /\ isServe = FALSE
        /\ targetSquare = NoSquare
        /\ ball = NoPos
        /\ returnBall = NoPos
        /\ agentWonPoint = FALSE
        /\ gameShots = 0

\* the variables of the Match, which a Simulation does not touch
matchVars == <<players, trap, counters, bestOfSets, locals, gameShots>>

\* the orders shuffle can give to the agents of S
Orders(S) ==
    {q \in [1..Cardinality(S) -> S] :
        \A x, y \in 1..Cardinality(S) : q[x] = q[y] => x = y}

\* the while of run holds: iteration++ and the entry of simulateIteration
\* up to the shuffle of activeAgents
SimulateIteration ==
    /\ pc = "run"
    /\ ~h.allAgentsComplete
    /\ h.iteration < MAX_SIMULATION_STEPS
    /\ \E q \in Orders({i \in AgentIds : ~isComplete(h.agentList[i])}) :
          h' = [h EXCEPT !.iteration = Count(@),
                         !.allComplete = TRUE,
                         !.activeAgents = q,
                         !.call = NoExchange]
    /\ pc' = "iteration"
    /\ UNCHANGED matchVars

\* one pass of the for loop of simulateIteration, for i = the next of
\* activeAgents and every outcome j of dist(rng)
AgentTurn ==
    /\ pc = "iteration"
    /\ h.activeAgents # <<>>
    /\ LET i == Head(h.activeAgents)
           rest == Tail(h.activeAgents)
       IN  IF isComplete(h.agentList[i])
           THEN h' = [h EXCEPT !.activeAgents = rest, !.call = NoExchange]
           ELSE \E j \in AgentIds :
                  IF j = i
                  THEN h' = [h EXCEPT !.activeAgents = rest,
                                      !.allComplete = FALSE,
                                      !.call = NoExchange]
                  ELSE LET x == exchangeWith(h.agentList[i], h.agentList[j])
                           step == IF x.ok /\ x.self.completionStep = 0
                                   THEN h.iteration
                                   ELSE x.self.completionStep
                       IN  h' = [h EXCEPT
                                   !.agentList =
                                       [[@ EXCEPT ![j] = x.other] EXCEPT
                                          ![i] = [x.self EXCEPT
                                                    !.completionStep = step]],
                                   !.activeAgents = rest,
                                   !.allComplete = FALSE,
                                   !.call = [i |-> i, j |-> j, ok |-> x.ok]]
    /\ UNCHANGED <<pc, matchVars>>

\* simulateIteration returns allComplete to run
IterationReturn ==
    /\ pc = "iteration"
    /\ h.activeAgents = <<>>
    /\ h' = [h EXCEPT !.allAgentsComplete = h.allComplete]
    /\ pc' = "run"
    /\ UNCHANGED matchVars

\* the while of run fails: run goes on to printResults
RunReturn ==
    /\ pc = "run"
    /\ h.allAgentsComplete \/ h.iteration >= MAX_SIMULATION_STEPS
    /\ pc' = "finished"
    /\ UNCHANGED <<h, matchVars>>

SimNext == SimulateIteration \/ AgentTurn \/ IterationReturn \/ RunReturn

SpecSim == SimInit /\ [][SimNext]_vars

\* a pass of the for loop, or the entry of simulateIteration, is due
turnDue ==
    \/ pc = "run" /\ ~h.allAgentsComplete
                  /\ h.iteration < MAX_SIMULATION_STEPS
    \/ pc = "iteration" /\ h.activeAgents # <<>>

\* the due step is made
TurnMade == turnDue /\ pc' = "iteration"

\* some outcome j of dist(rng) makes exchangeWith return true in the pass
\* of the for loop that is due
canExchange ==
    /\ pc = "iteration"
    /\ h.activeAgents # <<>>
    /\ LET i == Head(h.activeAgents)
       IN  \E j \in AgentIds \ {i} :
              findNeededPatent(h.agentList[i], h.agentList[j]) # -1

\* a pass of the for loop in which exchangeWith returned true
Exchanged == pc = "iteration" /\ pc' = "iteration" /\ h'.call.ok

\* the returns of simulateIteration and of run
SimReturns == IterationReturn \/ RunReturn

\* the program runs on: a due pass of the loops is made (weak fairness of
\* TurnMade, with its enabling condition written out)
TurnsProceed == []<>(~turnDue) \/ []<><<TurnMade>>_vars

\* the partner j is drawn fairly: a partner with which the exchange
\* succeeds, possible again and again, is drawn at some time (strong
\* fairness of Exchanged, with its enabling condition written out)
PartnersFair == <>[](~canExchange) \/ []<><<Exchanged>>_vars

SpecSimFair ==
    SimInit /\ [][SimNext]_vars /\ WF_vars(SimReturns) /\ TurnsProceed
            /\ PartnersFair

(* ------------------------------- claims -------------------------------- *)
Leads(mine, theirs, least) == mine >= least /\ mine >= theirs + 2

inGame == {"point", "rally", "scored"}
inSet == inGame \cup {"playGame"}

\* C1: playGame ends exactly at the first point after which one side has at
\* least 4 points and leads by at least 2, and adds 1 to that side's game
\* counter; at every earlier score of the game there is no such side and
\* the game goes on.
C1_GameEndsAtMargin ==
    [][/\ pc = "scored" =>
            IF Leads(agentPoints', botPoints', 4)
            THEN /\ pc' = "setCheck"
                 /\ agentGames' = agentGames + 1
                 /\ botGames' = botGames
            ELSE IF Leads(botPoints', agentPoints', 4)
            THEN /\ pc' = "setCheck"
                 /\ botGames' = botGames + 1
                 /\ agentGames' = agentGames
            ELSE /\ pc' = "point"
                 /\ UNCHANGED <<agentGames, botGames>>
       /\ pc' \in inGame =>
            /\ ~Leads(agentPoints', botPoints', 4)
            /\ ~Leads(botPoints', agentPoints', 4)]_vars

\* a game won 5-3 by the agent, which went on at 4-3
C1_Witness ==
    /\ pc = "setCheck"
    /\ agentPoints = 5 /\ botPoints = 3
    /\ agentGames = 1 /\ botGames = 0

\* C2: playSet ends exactly at the first game after which one side has at
\* least 6 games and leads by at least 2, and adds 1 to that side's set
\* counter; 6-5 does not end the set.
C2_SetEndsAtMargin ==
    [][/\ pc = "setCheck" =>
            IF Leads(agentGames, botGames, 6)
            THEN /\ pc' = "matchLoop"
                 /\ agentSets' = agentSets + 1
                 /\ botSets' = botSets
            ELSE IF Leads(botGames, agentGames, 6)
            THEN /\ pc' = "matchLoop"
                 /\ botSets' = botSets + 1
                 /\ agentSets' = agentSets
            ELSE /\ pc' = "playGame"
                 /\ UNCHANGED <<agentSets, botSets>>
       /\ pc' \in inSet =>
            /\ ~Leads(agentGames', botGames', 6)
            /\ ~Leads(botGames', agentGames', 6)]_vars

\* a set won 7-5 by the bot, which went on at 5-6
C2_Witness ==
    /\ pc = "matchLoop"
    /\ agentGames = 5 /\ botGames = 7
    /\ botSets = 1

\* C3: playMatch(bestOfSets) plays a further set exactly while both set
\* counters are below bestOfSets; when it returns, one counter equals
\* bestOfSets and the other is smaller.
C3_MatchStopsAtThreshold ==
    [][/\ pc = "matchLoop" =>
            IF agentSets >= bestOfSets \/ botSets >= bestOfSets
            THEN pc' = "done" /\ UNCHANGED counters
            ELSE pc' = "playGame"
       /\ pc' = "done" =>
            \/ agentSets' = bestOfSets /\ botSets' < bestOfSets
            \/ botSets' = bestOfSets /\ agentSets' < bestOfSets
       /\ agentSets' <= bestOfSets /\ botSets' <= bestOfSets]_vars

\* a best-of-2 match that returned at 1-2
C3_Witness ==
    /\ pc = "done"
    /\ bestOfSets = 2
    /\ agentSets = 1 /\ botSets = 2

\* C4: in every game the first call of chooseSquare, the first shot of the
\* point played at 0-0, is the only one made with isServe = true.
firstShotOfGame == pc = "point" /\ agentPoints + botPoints = 0

C4_ServeOnlyFirstShot ==
    [][(pc \in {"point", "rally"}) =>
            (isServe' <=> gameShots = 0) /\ (isServe' <=> firstShotOfGame)]_vars

\* a later shot of the first point of a game, made without serve semantics
C4_Witness ==
    /\ pc = "rally"
    /\ agentPoints + botPoints = 0
    /\ gameShots = 2
    /\ ~isServe

armedNow == trapMode /\ hasLastTarget

\* squares[k] is the first square, in row-major order, whose centre is
\* farthest from p
FirstFarthest(k, p) ==
    /\ \A m \in 1..Len(squares) :
           CenterDistSq(squares[m], p) <= CenterDistSq(squares[k], p)
    /\ \A m \in 1..(k - 1) :
           CenterDistSq(squares[m], p) < CenterDistSq(squares[k], p)

\* squares[k] is the first square, in row-major order, whose centre is
\* nearest to p
FirstNearest(k, p) ==
    /\ \A m \in 1..Len(squares) :
           CenterDistSq(squares[m], p) >= CenterDistSq(squares[k], p)
    /\ \A m \in 1..(k - 1) :
           CenterDistSq(squares[m], p) > CenterDistSq(squares[k], p)

\* C5 as claimed: every call of chooseSquare with isServe = true, whether
\* the trap was idle or armed before it, leaves the trap armed.
C5_ServeAlwaysArms ==
    [][isServe' => (trapMode' /\ hasLastTarget')]_vars

\* C5, amended: a call of chooseSquare with isServe = true made with the
\* trap idle leaves the trap armed, the centre of the returned square being
\* the remembered target; made with the trap armed it consumes the trap and
\* leaves it idle.
C5_ServeArmsIdleTrap ==
    [][isServe' =>
            IF armedNow
            THEN ~trapMode' /\ ~hasLastTarget'
            ELSE /\ trapMode' /\ hasLastTarget'
                 /\ lastServeTarget' = targetSquare'.center
                 /\ targetSquare'.row >= 0]_vars

\* a serve call has armed the trap
C5_Witness ==
    /\ pc = "strategy"
    /\ isServe /\ trapMode /\ hasLastTarget
    /\ lastServeTarget = targetSquare.center

\* C6: with the trap armed, the next call of chooseSquare, for any player
\* positions and any isServe, returns the first square in row-major order
\* whose centre is farthest from the remembered target, a square of the
\* grid, and leaves trapMode and hasLastTarget false.
C6_TrapReturnsFarthest ==
    [][armedNow =>
            /\ \E k \in 1..Len(squares) :
                   /\ targetSquare' = squares[k]
                   /\ FirstFarthest(k, lastServeTarget)
            /\ targetSquare'.row >= 0
            /\ ~trapMode' /\ ~hasLastTarget']_vars

\* a call with isServe = true consumed a trap whose target, the centre of
\* the middle square, has several farthest squares
C6_Witness ==
    /\ pc = "strategy"
    /\ isServe /\ ~trapMode /\ ~hasLastTarget
    /\ Cardinality({k \in 1..Len(squares) :
           \A m \in 1..Len(squares) :
               CenterDistSq(squares[m], lastServeTarget)
                   <= CenterDistSq(squares[k], lastServeTarget)}) > 1
    /\ targetSquare = squares[1]

\* C7: a serve call made with the trap idle returns the first square in
\* row-major order whose centre is nearest to the bot's position, for every
\* outcome of the random draws, and remembers that square's centre.
C7_ServeReturnsNearest ==
    [][(isServe' /\ ~armedNow) =>
            /\ \E k \in 1..Len(squares) :
                   /\ targetSquare' = squares[k]
                   /\ FirstNearest(k, bot'.pos)
            /\ lastServeTarget' = targetSquare'.center
            /\ targetSquare'.row >= 0]_vars

\* a serve returned the first of two nearest squares, which is not the
\* best-scoring square
C7_Witness ==
    /\ pc = "strategy"
    /\ isServe /\ trapMode
    /\ Cardinality({k \in 1..Len(squares) :
           \A m \in 1..Len(squares) :
               CenterDistSq(squares[m], bot.pos)
                   >= CenterDistSq(squares[k], bot.pos)}) > 1
    /\ targetSquare # bestSquareFor(agent, bot)

\* C8: chooseSquare returns the out-sentinel only for a shot that is no
\* serve, made with the trap idle, whose best square has a neighbour
\* outside the grid; simulatePoint then returns at once, the bot wins the
\* point, no player has moved and no landing position was computed.
C8_SentinelEndsPoint ==
    [][/\ (pc \in {"point", "rally"} /\ targetSquare'.row = -1) =>
            /\ ~isServe'
            /\ ~armedNow
            /\ pc' = "scored"
            /\ ~agentWonPoint'
            /\ UNCHANGED <<agent, bot>>
            /\ ball' = NoPos /\ returnBall' = NoPos
            /\ LET best == bestSquareFor(agent, bot)
               IN  \E d \in 1..4 :
                       \/ best.row + dRow[d] \notin 0..(N - 1)
                       \/ best.col + dCol[d] \notin 0..(N - 1)
       /\ (pc = "scored" /\ targetSquare.row = -1) =>
            /\ botPoints' = botPoints + 1
            /\ agentPoints' = agentPoints]_vars

\* a point that ended by the out-sentinel
C8_Witness ==
    /\ pc = "scored"
    /\ targetSquare.row = -1
    /\ ~agentWonPoint

WithinReach(p, b) == DistSq(b.x - p.pos.x, b.y - p.pos.y) <= p.r * p.r

\* the bot's, the agent's reach was tested in the shot that just ended
botTested == ball' # NoPos /\ ~isOut(ball')
agentTested == returnBall' # NoPos /\ ~isOut(returnBall')

\* C9 as claimed: the agent reaches the return if and only if it is within
\* its radius r after moving; the bot reaches the ball if and only if the
\* ball is within r and not behind it.
C9_AgentReachIsDistanceOnly ==
    [][(pc \in {"point", "rally"}) =>
            /\ agentTested =>
                   (pc' = "rally" <=> WithinReach(agent', returnBall'))
            /\ botTested =>
                   (returnBall' # NoPos <=>
                        /\ WithinReach(bot', ball')
                        /\ ball'.y >= bot'.pos.y)]_vars

\* C9, amended: for the agent as for the bot, canHit(target) is true if and
\* only if the target is within the radius r of the player's position and
\* its y-coordinate is not below the player's.
C9_ReachNeedsSideBothPlayers ==
    [][(pc \in {"point", "rally"}) =>
            /\ agentTested =>
                   (pc' = "rally" <=>
                        /\ WithinReach(agent', returnBall')
                        /\ returnBall'.y >= agent'.pos.y)
            /\ botTested =>
                   (returnBall' # NoPos <=>
                        /\ WithinReach(bot', ball')
                        /\ ball'.y >= bot'.pos.y)]_vars

\* the agent lost the point on a return within its radius but below it
C9_Witness ==
    /\ pc = "scored"
    /\ returnBall # NoPos
    /\ ~agentWonPoint
    /\ WithinReach(agent, returnBall)
    /\ returnBall.y < agent.pos.y

\* the exact distance of two positions of SpecMove
MoveDist(p, q) == Hypot(q.x - p.x, q.y - p.y)

\* C10 as claimed: after moveTo the distance to the target is the smaller
\* of the original distance and the speed l.
C10_RemainingIsMin ==
    pc = "moved" =>
        MoveDist(agent.pos, h.target) = Min(MoveDist(h.from, h.target), agent.l)

\* C10, amended: moveTo covers the smaller of the original distance and the
\* speed l, so the distance to the target afterwards is the original
\* distance minus that: 0 if the original distance is at most l, and the
\* original distance minus l otherwise.
C10_CoveredIsMin ==
    pc = "moved" =>
        LET d == MoveDist(h.from, h.target)
            rest == d - Min(d, agent.l)
        IN  /\ DistSq(h.target.x - agent.pos.x, h.target.y - agent.pos.y)
                   = rest * rest
            /\ DistSq(agent.pos.x - h.from.x, agent.pos.y - h.from.y)
                   = Min(d, agent.l) * Min(d, agent.l)

\* a move at speed l > 0 that ended between its start and its target
C10_Witness ==
    /\ pc = "moved"
    /\ agent.l > 0
    /\ agent.pos # h.target
    /\ agent.pos # h.from


\* a step that is one call of simulatePoint
shotStep == pc \in {"point", "rally"} /\ pc' \in {"rally", "scored"}

landedIn(b) == b # NoPos /\ ~isOut(b)

\* C11 as stated: with bot reach radius 0, whatever the bot's speed, the bot
\* never reaches a ball: every in-bounds agent shot wins the point for the
\* agent and no rally has a return.
C11_ReachZeroNeverReturns ==
    bot.r = 0 =>
        /\ returnBall = NoPos
        /\ (pc = "scored" /\ landedIn(ball)) => agentWonPoint

\* C11: with bot reach radius 0 the bot reaches an in-bounds ball exactly
\* when the ball lands within its speed l of the place it stands at: it
\* then moves onto the ball and returns it; every other in-bounds agent shot
\* wins the point for the agent without a return.
C11_ReachZeroHitsWithinSpeed ==
    [][(shotStep /\ bot.r = 0 /\ landedIn(ball')) =>
          IF DistSq(ball'.x - bot.pos.x, ball'.y - bot.pos.y) <= bot.l * bot.l
          THEN bot'.pos = ball' /\ returnBall' # NoPos
          ELSE returnBall' = NoPos /\ agentWonPoint' /\ pc' = "scored"]_vars

C11_Witness ==
    /\ bot.r = 0
    /\ returnBall # NoPos
    /\ bot.pos = ball
    /\ pc = "rally"

\* C12 as stated: each call of simulatePoint has at least one outcome of its
\* random draws that ends the point.
C12_EveryExchangeCanEnd ==
    /\ pc = "rally" => canEndNow(FALSE)
    /\ (pc = "point" /\ agentPoints + botPoints < MaxPoints)
           => canEndNow(serveNow(TRUE))

\* C12: under fair random draws every point that is under way eventually
\* ends with a winner, although a single call of simulatePoint need not
\* have an outcome that ends it.
C12_PointEventuallyEnds == pointRunning ~> (pc = "scored")

\* a serve none of whose outcomes ends the point has been played, and the
\* rally it started is under way
C12_Witness ==
    /\ pc = "rally"
    /\ isServe
    /\ targetSquare.col > 0 /\ targetSquare.col < N - 1
    /\ bot.l >= 30 * Unit /\ agent.l >= 30 * Unit

\* C13: for every n >= 1 the constructed Court has exactly n * n cells, the
\* cell of (row, col) at index row * n + col, so that getSquare(row, col)
\* returns the cell carrying those indices, and every cell centre lies
\* strictly inside the court.
C13_CourtCells ==
    pc \in {"built", "got"} =>
        /\ Len(h.squares) = h.n * h.n
        /\ \A row \in 0..(h.n - 1), col \in 0..(h.n - 1) :
              LET sq == h.squares[row * h.n + col + 1]
              IN  /\ sq.row = row /\ sq.col = col
                  /\ 0 < sq.center.x /\ sq.center.x < CourtWidth
                  /\ 0 < sq.center.y /\ sq.center.y < CourtHeight
        /\ pc = "got" =>
              /\ h.call.got.row = h.call.row
              /\ h.call.got.col = h.call.col

C13_Witness ==
    /\ pc = "got"
    /\ h.n >= 3
    /\ h.call.row = h.n - 1 /\ h.call.col = 0
    /\ h.call.got.center.x > h.call.got.center.y

\* player p, where it stands, reaches the ball at b
Reaches(p, b) == b.y >= p.pos.y /\ WithinReach(p, b)

\* the ways the call of simulatePoint made in this step went
sentinelShot == targetSquare'.row = -1
ballOut == ~sentinelShot /\ isOut(ball')
botMissed == ~sentinelShot /\ ~isOut(ball') /\ ~Reaches(bot', ball')
botHit == ~sentinelShot /\ ~isOut(ball') /\ Reaches(bot', ball')
returnOut == botHit /\ isOut(returnBall')
agentMissed == botHit /\ ~isOut(returnBall') /\ ~Reaches(agent', returnBall')
agentHit == botHit /\ ~isOut(returnBall') /\ Reaches(agent', returnBall')

\* C14: every point ends with one winner and adds exactly 1 to exactly one
\* of agentPoints, botPoints.  The bot wins exactly when the rally ends by
\* the out-sentinel, by the agent's ball landing out of bounds, or by the
\* agent failing to reach the bot's return after moving; the agent wins
\* exactly when the bot fails to reach an in-bounds ball after moving, or
\* the bot's return lands out of bounds; after a successful agent reach the
\* rally goes on with a shot that is not a serve.
C14_PointWinner ==
    [][/\ shotStep =>
            /\ (pc' = "scored" /\ ~agentWonPoint')
                   <=> (sentinelShot \/ ballOut \/ agentMissed)
            /\ (pc' = "scored" /\ agentWonPoint')
                   <=> (botMissed \/ returnOut)
            /\ pc' = "rally" <=> agentHit
            /\ botHit <=> returnBall' # NoPos
            /\ pc = "rally" => ~isServe'
       /\ pc = "scored" =>
            /\ agentPoints' = agentPoints + (IF agentWonPoint THEN 1 ELSE 0)
            /\ botPoints' = botPoints + (IF agentWonPoint THEN 0 ELSE 1)]_vars

\* the point ended because the agent failed to reach the bot's return
C14_Witness ==
    /\ pc = "scored"
    /\ ~agentWonPoint
    /\ returnBall # NoPos
    /\ ~Reaches(agent, returnBall)

\* C15: moveTo never overshoots: a target at distance at most l, also at
\* exactly l, becomes the position; otherwise the player advances exactly l
\* on the straight line to the target, so that the distance left is the
\* original distance minus l; r and l do not change.
C15_MoveNeverOvershoots ==
    [][pc = "move" =>
          LET dx == h.target.x - agent.pos.x
              dy == h.target.y - agent.pos.y
              mx == agent'.pos.x - agent.pos.x
              my == agent'.pos.y - agent.pos.y
              d == Hypot(dx, dy)
          IN  /\ agent'.r = agent.r /\ agent'.l = agent.l
              /\ IF d <= agent.l
                 THEN agent'.pos = h.target
                 ELSE /\ mx * dy = my * dx
                      /\ mx * dx + my * dy >= 0
                      /\ DistSq(mx, my) = agent.l * agent.l
                      /\ DistSq(h.target.x - agent'.pos.x,
                                h.target.y - agent'.pos.y)
                             = (d - agent.l) * (d - agent.l)]_vars

\* a move to a target at distance exactly l
C15_Witness ==
    /\ pc = "moved"
    /\ agent.l > 0
    /\ MoveDist(h.from, h.target) = agent.l
    /\ agent.pos = h.target

OneMore(mine, theirs) ==
    \/ mine[1]' = mine[1] + 1 /\ theirs[1]' = theirs[1]
    \/ theirs[1]' = theirs[1] + 1 /\ mine[1]' = mine[1]

\* C16: playGame sets both point counters to 0 at its start and has, on
\* return, added exactly 1 to exactly one of agentGames, botGames and left
\* the set counters unchanged; playSet sets both game counters to 0 at its
\* start and has, on return, added exactly 1 to exactly one of agentSets,
\* botSets; playMatch sets both set counters to 0 at its start.
C16_CounterFrames ==
    [][/\ pc = "playGame" =>
            /\ agentPoints' = 0 /\ botPoints' = 0
            /\ UNCHANGED <<agentGames, botGames, agentSets, botSets>>
       /\ (pc \in inGame /\ pc' \in inGame) =>
            UNCHANGED <<agentGames, botGames, agentSets, botSets>>
       /\ (pc \in inGame /\ pc' = "setCheck") =>
            /\ OneMore(<<agentGames>>, <<botGames>>)
            /\ UNCHANGED <<agentSets, botSets>>
       /\ (pc = "matchLoop" /\ pc' = "playGame") =>
            /\ agentGames' = 0 /\ botGames' = 0
            /\ UNCHANGED <<agentSets, botSets>>
       /\ (pc = "setCheck" /\ pc' = "playGame") =>
            UNCHANGED <<agentGames, botGames, agentSets, botSets>>
       /\ (pc = "setCheck" /\ pc' = "matchLoop") =>
            /\ OneMore(<<agentSets>>, <<botSets>>)
            /\ UNCHANGED <<agentGames, botGames>>
       /\ pc = "start" => agentSets' = 0 /\ botSets' = 0]_vars

\* a game after the first one of a set has just been entered
C16_Witness ==
    /\ pc = "point"
    /\ gameShots = 0
    /\ agentPoints = 0 /\ botPoints = 0
    /\ agentGames + botGames >= 1

\* C17: the players stand on their fixed start positions after the Match is
\* constructed; afterwards only a call of simulatePoint changes a player,
\* by at most one moveTo each: the bot moves exactly when the agent's ball
\* landed in bounds, the agent exactly when the bot hit the ball; the start
\* of a point, game or set leaves both players where they stand.
C17_PositionsCarryOver ==
    [][/\ pc = "start" =>
            /\ agent.pos = Pos(10 * Unit, 0)
            /\ bot.pos = Pos(10 * Unit, 10 * Unit)
       /\ ~shotStep => UNCHANGED <<agent, bot>>
       /\ shotStep =>
            /\ bot' = IF landedIn(ball') THEN moveTo(bot, ball') ELSE bot
            /\ agent' = IF returnBall' # NoPos
                        THEN moveTo(agent, returnBall') ELSE agent]_vars

\* a later game starts with both players away from their start positions
C17_Witness ==
    /\ pc = "point"
    /\ gameShots = 0
    /\ agentGames + botGames >= 1
    /\ agent.pos # Pos(10 * Unit, 0)
    /\ bot.pos # Pos(10 * Unit, 10 * Unit)

\* C18: within a Match the trap is idle at every serve call; in every game
\* the game's first chooseSquare call arms it and the game's second call
\* consumes it, whether that is the second shot of the first point or the
\* first shot of the second point; the trap is idle at every other call
\* and at the end of every game.
C18_TrapArmedOncePerGame ==
    /\ pc \in inGame =>
          (armedNow <=> gameShots = 1)
    /\ pc \in {"start", "matchLoop", "playGame", "setCheck", "done"} =>
          ~armedNow

\* the serve was not returned: the second point of the game starts with
\* the trap still armed
C18_Witness ==
    /\ pc = "point"
    /\ agentPoints + botPoints = 1
    /\ gameShots = 1
    /\ armedNow

\* every agent's missingPatents is targetPatents minus currentPatents
MissingIsTargetMinusCurrent(agents) ==
    \A i \in AgentIds :
        agents[i].missingPatents
            = agents[i].targetPatents \ agents[i].currentPatents

\* C19: after initialize and after every exchangeWith, successful or not,
\* every agent's missingPatents equals targetPatents minus currentPatents
\* and no agent's currentPatents has lost an element; an exchangeWith that
\* fails changes nothing but the communicationRounds of its two agents.
C19_MissingAndMonotone ==
    [][/\ MissingIsTargetMinusCurrent(h.agentList)
       /\ MissingIsTargetMinusCurrent(h'.agentList)
       /\ \A i \in AgentIds :
             /\ h.agentList[i].currentPatents
                    \subseteq h'.agentList[i].currentPatents
             /\ h'.agentList[i].targetPatents = h.agentList[i].targetPatents
       /\ (pc = "iteration" /\ pc' = "iteration"
              /\ h'.call.j # -1 /\ ~h'.call.ok) =>
             h'.agentList =
                 [h.agentList EXCEPT
                    ![h'.call.i].communicationRounds = Count(@),
                    ![h'.call.j].communicationRounds = Count(@)]]_vars

\* an exchangeWith has just failed
C19_Witness ==
    /\ pc = "iteration"
    /\ h.call.j # -1
    /\ ~h.call.ok
    /\ h.agentList[h.call.i].communicationRounds >= 1

AllComplete == \A i \in AgentIds : isComplete(h.agentList[i])

\* every patent an agent misses is held by another agent
MissingIsHeld ==
    \A i \in AgentIds : \A p \in h.agentList[i].missingPatents :
        \E j \in AgentIds \ {i} :
            /\ p \in h.agentList[j].currentPatents
            /\ exchangeWith(h.agentList[i], h.agentList[j]).ok

\* C20: the exchange protocol cannot get stuck: in every reachable state
\* each patent an incomplete agent misses is held by some other agent, so
\* that some partner makes exchangeWith succeed; under fair random choice
\* of the partner, and leaving MAX_SIMULATION_STEPS aside, every agent
\* becomes complete and run stops with all agents complete.
C20_NeverStuck ==
    /\ []MissingIsHeld
    /\ <>(pc = "finished" /\ AllComplete)

\* run has returned after exchanges were made, with every agent complete
C20_Witness ==
    /\ pc = "finished"
    /\ AllComplete
    /\ \E i \in AgentIds : h.agentList[i].communicationRounds >= 1
    /\ h.iteration >= 2
====
